---- MODULE Spec2Model ----
(***************************************************************************)
(* Model of the event store of node-cqrs (src/src/EventStore.js): commit,  *)
(* on, once, getAggregateEvents and the collaborators they drive (storage, *)
(* message bus), and of the aggregate runtime (AbstractAggregate).         *)
(*                                                                         *)
(* JavaScript objects are functions from property names to values.  A      *)
(* property whose value is undefined is left out of the domain: the code   *)
(* only ever reads properties, and a read of a missing property and of an  *)
(* undefined one give the same value.                                      *)
(***************************************************************************)
EXTENDS Integers, Sequences, FiniteSets, TLC

\* ------------------------------------------------------------------ bounds
MaxCommits == 1      \* calls of commit in one behaviour
MaxBatch == 2        \* events in one call of commit
MaxSubs == 2         \* calls of on in one behaviour
MaxOnce == 1         \* calls of once in one behaviour
MaxOtherSubs == 1    \* calls of on beside the one-time subscriptions
MaxExternal == 2     \* events the emitter delivers that this store did not commit
MaxConcurrent == 2   \* calls of commit that run concurrently
MaxHistory == 2      \* events given to the constructor of an aggregate
MaxEmits == 2        \* calls of emit on one aggregate

\* ------------------------------------------------------------ JS objects
EmptyObj == <<>>

Has(o, k) == k \in DOMAIN o

\* (mutant) the properties of a win
AssignKeepingFirst(a, b) ==
    [k \in (DOMAIN a) \cup (DOMAIN b) |-> IF k \in DOMAIN a THEN a[k] ELSE b[k]]

\* Object.assign({}, a, b): the properties of b win
Assign(a, b) ==
    [k \in (DOMAIN a) \cup (DOMAIN b) |-> IF k \in DOMAIN b THEN b[k] ELSE a[k]]

\* ------------------------------------------------------------ input values
EvA == [type |-> "A", aggregateId |-> "a1"]
EvB == [type |-> "B", aggregateId |-> "a1", sagaId |-> "s2", sagaVersion |-> 2,
        context |-> [user |-> "u2"]]
EvBare == [type |-> "A"]
EvNoType == [aggregateId |-> "a1"]

InputEvents == {EvA, EvB, EvBare, EvNoType}

NoCmd == EmptyObj
CmdSaga == [sagaId |-> "s1", sagaVersion |-> 1,
            context |-> [user |-> "u1", hostname |-> "h2"]]
CmdNoVersion == [sagaId |-> "s1"]

SourceCommands == {NoCmd, CmdSaga, CmdNoVersion}

\* a batch of n complete events
ValidBatch(n) == [i \in 1..n |-> IF i % 2 = 1 THEN EvA ELSE EvB]

\* the batches committed: up to MaxBatch events, at most one of them (at any
\* position) an event that lacks a required field
Batches ==
    UNION {{ValidBatch(n)} \cup
           {[ValidBatch(n) EXCEPT ![k] = x] : k \in 1..n, x \in {EvBare, EvNoType}}
           : n \in 0..MaxBatch}

StorageErrors == {"conflict"}
\* the error a failing bus.publish of event i rejects with
PublishError(i) == "publish of event " \o ToString(i) \o " failed"

\* ------------------------------------------------------------------ state
VARIABLES
    config,       \* this[_config]
    hasBus,       \* this[_bus] is set (FALSE: the storage is the emitter, _bus = null)
    supportsQueues, \* EmitterType.supportsQueues
    commits,      \* the calls of commit, in call order
    storageLog,   \* calls of storage.commitEvents, in call order, and how each ended
    stored,       \* the events the storage holds
    immediate,    \* setImmediate queue: commits whose publishEvents is scheduled
    published,    \* calls of bus.publish, in call order
    handlers,     \* the emitter's subscriptions, in subscription order
    inflight,     \* deliveries the emitter has started and not finished
    received,     \* per handler, the events it was invoked with
    namedQueues,  \* this[_namedQueues]
    onces,        \* the one-time subscriptions made by once
    thrown,       \* errors raised inside the emitter's callbacks
    onResults,    \* the outcome of each call of on, in call order
    nExternal,    \* events delivered from outside so far
    onCalls,      \* the arguments of each call of on, in call order
    aggregates    \* the aggregate instances constructed, in construction order

vars == <<config, hasBus, supportsQueues, commits, storageLog, stored, immediate,
          published, handlers, inflight, received, namedQueues, onces, thrown,
          onResults, nExternal, onCalls, aggregates>>

\* --------------------------------------------------------- pure functions

\* validateEvent: the message of the TypeError it throws, "none" when it returns
validateEvent(event) ==
    IF ~Has(event, "type") \/ event.type = ""
        THEN "event.type must be a non-empty String"
    ELSE IF ~Has(event, "aggregateId") /\ ~Has(event, "sagaId")
        THEN "either event.aggregateId or event.sagaId is required"
    ELSE IF Has(event, "sagaId") /\ ~Has(event, "sagaVersion")
        THEN "event.sagaVersion is required, when event.sagaId is defined"
    ELSE "none"

\* the object `extension` of augmentEvents
Extension(sourceCommand, eventStoreConfig) ==
    LET fromCommand == [k \in {"sagaId", "sagaVersion"} \cap DOMAIN sourceCommand
                            |-> sourceCommand[k]]
        context ==
            IF Has(eventStoreConfig, "hostname")
            THEN [context |-> Assign([hostname |-> eventStoreConfig.hostname],
                                     IF Has(sourceCommand, "context")
                                     THEN sourceCommand.context ELSE EmptyObj)]
            ELSE IF Has(sourceCommand, "context")
                 THEN [context |-> sourceCommand.context]
                 ELSE EmptyObj
    IN Assign(fromCommand, context)

\* EventStream.from(events, mapFn) maps the events one by one, in order
augmentEvents(events, sourceCommand, eventStoreConfig) ==
    LET extension == Extension(sourceCommand, eventStoreConfig)
    IN [i \in 1..Len(events) |-> Assign(extension, events[i])]

\* (mutant) the extension is assigned to the input events themselves:
\* Object.assign(event, extension)
AugmentedInputInPlace(events, sourceCommand, eventStoreConfig) ==
    LET extension == Extension(sourceCommand, eventStoreConfig)
    IN [i \in 1..Len(events) |-> Assign(events[i], extension)]

\* the input array and its events as augmentEvents leaves them: Object.assign
\* writes into its first argument only, which is a new object for every event
\* (`{}`, line 88) and for the context (`{ hostname }`, line 84), and
\* EventStream.from puts the results into a new stream
AugmentedInput(events, sourceCommand, eventStoreConfig) ==
    [i \in 1..Len(events) |-> events[i]]

\* (mutant) only the first event of the stream is validated
FirstInvalidOfHead(eventStream) ==
    IF Len(eventStream) > 0 /\ validateEvent(eventStream[1]) # "none" THEN 1 ELSE 0

\* eventStream.forEach(validate): the events validated before forEach ends, and
\* the error that ends it ("none": every event passed)
FirstInvalid(eventStream) ==
    LET bad == {i \in 1..Len(eventStream) : validateEvent(eventStream[i]) # "none"}
    IN IF bad = {} THEN 0 ELSE CHOOSE i \in bad : \A j \in bad : i <= j

\* ------------------------------------------------------------- promises
Pending == [kind |-> "pending"]
Resolved(v) == [kind |-> "resolved", value |-> v]
Rejected(err) == [kind |-> "rejected", error |-> err]

\* ------------------------------------------------------------ the emitter
PlainFn(h) == [kind |-> "plain", h |-> h]
QueuedFn(h) == [kind |-> "queued", h |-> h]
OnceFn(o) == [kind |-> "once", o |-> o]

\* emitter.on(messageType, fn)
EmitterOn(hs, messageType, fn) == Append(hs, [type |-> messageType, fn |-> fn])

\* emitter.removeListener(messageType, fn): the latest such subscription goes
EmitterRemoveListener(hs, messageType, fn) ==
    LET hits == {i \in 1..Len(hs) : hs[i] = [type |-> messageType, fn |-> fn]}
    IN IF hits = {} THEN hs
       ELSE LET last == CHOOSE i \in hits : \A j \in hits : j <= i
            IN SubSeq(hs, 1, last - 1) \o SubSeq(hs, last + 1, Len(hs))

\* the deliveries one event starts: one per subscription to its type, in order
RECURSIVE Deliveries(_, _)
Deliveries(hs, event) ==
    IF hs = <<>> THEN <<>>
    ELSE (IF Head(hs).type = event.type
          THEN <<[fn |-> Head(hs).fn, e |-> event]>> ELSE <<>>)
         \o Deliveries(Tail(hs), event)

RECURSIVE DeliveriesOfAll(_, _)
DeliveriesOfAll(hs, events) ==
    IF events = <<>> THEN <<>>
    ELSE Deliveries(hs, Head(events)) \o DeliveriesOfAll(hs, Tail(events))

\* ------------------------------------------------------- handlers, inputs
MessageTypes == {"A", "B"}
\* the functions given to on: call n of on is given the function "h"n
HandlerNames == <<"h1", "h2", "h3", "h4">>
Handlers == {HandlerNames[n] : n \in 1..MaxSubs}
NoQueue == ""                   \* on called without queueName
QueueNames == {NoQueue, "q1"}

NoHandler == "noHandler"        \* once called without handler
OnceHandlers == {NoHandler, "k1", "kThrows"}   \* kThrows: a handler that throws
NoFilter == "noFilter"          \* once called without filter
OnceFilters == {NoFilter, "isB"}
OnceTypeLists == {<<"A", "B">>, <<"B", "B">>}

\* filter(event) of a one-time subscription
FilterPasses(filter, event) ==
    \/ filter = NoFilter
    \/ filter = "isB" /\ event.type = "B"

\* events the emitter delivers that were committed on another node
ExternalEvents ==
    {[type |-> "A", aggregateId |-> "a9", context |-> [hostname |-> "h2"]],
     [type |-> "B", aggregateId |-> "a9"]}

Configs == {[publishAsync |-> a] : a \in BOOLEAN}
             \cup {[publishAsync |-> a, hostname |-> "h1"] : a \in BOOLEAN}

\* ------------------------------------------------------------------- Init
Init ==
    /\ config \in Configs
    /\ hasBus \in BOOLEAN
    /\ supportsQueues \in BOOLEAN
    /\ commits = <<>>
    /\ storageLog = <<>>
    /\ stored = <<>>
    /\ immediate = <<>>
    /\ published = <<>>
    /\ handlers = <<>>
    /\ inflight = <<>>
    /\ received = [h \in Handlers |-> <<>>]
    /\ namedQueues = {}
    /\ onces = <<>>
    /\ thrown = {}
    /\ onResults = <<>>
    /\ nExternal = 0
    /\ onCalls = <<>>
    /\ aggregates = <<>>

\* ----------------------------------------------------------------- commit

\* the record of a call of commit; `events` is the array as it was given,
\* `input` that same array as the call has left it
NewCommit(events, sourceCommand) ==
    [events |-> events, input |-> events, cmd |-> sourceCommand,
     stream |-> <<>>, validated |-> 0,
     phase |-> "called", result |-> Pending, pub |-> <<>>, all |-> "none",
     subs |-> handlers]

\* (mutant) the early return for an empty array is missing
IsEmptyNever(events) == FALSE

\* !events.length
IsEmpty(events) == Len(events) = 0

\* the call of storage.commitEvents that commit c made
StorageCall(c) == CHOOSE k \in 1..Len(storageLog) : storageLog[k].c = c

\* the calls of storage.commitEvents are numbered as they complete (`done`,
\* 0 while the call is pending)
NextDone == Cardinality({k \in 1..Len(storageLog) : storageLog[k].done # 0}) + 1

\* commit(events, { sourceCommand }) up to its first await
CommitCall(events, sourceCommand) ==
    /\ LET c == Len(commits) + 1
           eventStream == augmentEvents(events, sourceCommand, config)
           bad == FirstInvalid(eventStream)
           call == NewCommit(events, sourceCommand)
       IN IF IsEmpty(events)
          THEN /\ commits' = Append(commits,
                       [call EXCEPT !.phase = "done", !.result = Resolved(events)])
               /\ UNCHANGED storageLog
          ELSE IF bad # 0
          THEN /\ commits' = Append(commits,
                       [call EXCEPT !.stream = eventStream, !.validated = bad,
                                    !.input = AugmentedInput(events, sourceCommand, config),
                                    !.phase = "done",
                                    !.result = Rejected(validateEvent(eventStream[bad]))])
               /\ UNCHANGED storageLog
          ELSE /\ commits' = Append(commits,
                       [call EXCEPT !.stream = eventStream,
                                    !.input = AugmentedInput(events, sourceCommand, config),
                                    !.validated = Len(eventStream),
                                    !.phase = "storing"])
               /\ storageLog' = Append(storageLog,
                       [c |-> c, stream |-> eventStream, outcome |-> "pending",
                        done |-> 0])
    /\ UNCHANGED <<onCalls, config, hasBus, supportsQueues, stored, immediate,
                   published, handlers, inflight, received, namedQueues, onces,
                   thrown, onResults, nExternal>>

\* a call of commit with events that come from no aggregate of the model
Commit(events, sourceCommand) ==
    /\ Len(commits) < MaxCommits
    /\ CommitCall(events, sourceCommand)
    /\ UNCHANGED aggregates

\* (mutant) only the first event of the stream is published
PublishEventsHeadOnly(c) ==
    /\ published' = Append(published,
           [c |-> c, i |-> 1, e |-> commits[c].stream[1], at |-> commits[c].result.kind])
    /\ inflight' = inflight \o Deliveries(handlers, commits[c].stream[1])

\* (mutant) the events are published last to first
PublishEventsReversed(c) ==
    LET n == Len(commits[c].stream)
        reversed == [i \in 1..n |-> commits[c].stream[n + 1 - i]]
    IN /\ published' = published \o
              [i \in 1..n |-> [c |-> c, i |-> n + 1 - i, e |-> reversed[i],
                               at |-> commits[c].result.kind]]
       /\ inflight' = inflight \o DeliveriesOfAll(handlers, reversed)

\* publishEvents(): bus.publish is called for every event of the stream, in
\* order; the bus starts the deliveries and returns one promise per event.
\* `at` notes the state of commit's own promise at the time of the call.
PublishEvents(c) ==
    /\ published' = published \o
           [i \in 1..Len(commits[c].stream) |->
               [c |-> c, i |-> i, e |-> commits[c].stream[i], at |-> commits[c].result.kind]]
    /\ inflight' = inflight \o DeliveriesOfAll(handlers, commits[c].stream)

\* (mutant) the storage's error is swallowed and commit goes on to publish
StorageFailsSwallowed(c, err) ==
    /\ c \in 1..Len(commits)
    /\ commits[c].phase = "storing"
    /\ storageLog' = [storageLog EXCEPT ![StorageCall(c)].outcome = err,
                                        ![StorageCall(c)].done = NextDone]
    /\ IF hasBus
       THEN /\ PublishEvents(c)
            /\ commits' = [commits EXCEPT
                   ![c].phase = "publishing",
                   ![c].pub = [i \in 1..Len(commits[c].stream) |-> "pending"],
                   ![c].all = "pending"]
       ELSE /\ commits' = [commits EXCEPT ![c].phase = "done",
                                          ![c].result = Rejected(err)]
            /\ UNCHANGED <<published, inflight>>
    /\ UNCHANGED <<aggregates, onCalls, config, hasBus, supportsQueues, stored, immediate, handlers,
                   received, namedQueues, onces, thrown, onResults, nExternal>>

\* storage.commitEvents fails: commit rejects with the storage's error
StorageFails(c, err) ==
    /\ c \in 1..Len(commits)
    /\ commits[c].phase = "storing"
    /\ commits' = [commits EXCEPT ![c].phase = "done", ![c].result = Rejected(err)]
    /\ storageLog' = [storageLog EXCEPT ![StorageCall(c)].outcome = err,
                                        ![StorageCall(c)].done = NextDone]
    /\ UNCHANGED <<aggregates, onCalls, config, hasBus, supportsQueues, stored, immediate,
                   published, handlers, inflight, received, namedQueues, onces,
                   thrown, onResults, nExternal>>

\* storage.commitEvents succeeds, and commit runs on from its await
StorageSucceeds(c) ==
    /\ c \in 1..Len(commits)
    /\ commits[c].phase = "storing"
    /\ stored' = stored \o commits[c].stream
    /\ storageLog' = [storageLog EXCEPT ![StorageCall(c)].outcome = "ok",
                                        ![StorageCall(c)].done = NextDone]
    /\ IF ~hasBus
       THEN /\ commits' = [commits EXCEPT ![c].phase = "done",
                                          ![c].result = Resolved(commits[c].stream)]
            /\ UNCHANGED <<immediate, published, inflight>>
       ELSE IF config.publishAsync
       THEN /\ immediate' = Append(immediate, c)
            /\ commits' = [commits EXCEPT ![c].phase = "deferred",
                                          ![c].result = Resolved(commits[c].stream)]
            /\ UNCHANGED <<published, inflight>>
       ELSE /\ PublishEvents(c)
            /\ commits' = [commits EXCEPT
                   ![c].phase = "publishing",
                   ![c].pub = [i \in 1..Len(commits[c].stream) |-> "pending"],
                   ![c].all = "pending"]
            /\ UNCHANGED immediate
    /\ UNCHANGED <<aggregates, onCalls, config, hasBus, supportsQueues, handlers, received,
                   namedQueues, onces, thrown, onResults, nExternal>>

\* (mutant) the callback scheduled last runs first
RunImmediateLast ==
    /\ immediate # <<>>
    /\ LET c == immediate[Len(immediate)]
       IN /\ PublishEvents(c)
          /\ commits' = [commits EXCEPT
                 ![c].phase = "publishing",
                 ![c].pub = [i \in 1..Len(commits[c].stream) |-> "pending"],
                 ![c].all = "pending"]
    /\ immediate' = SubSeq(immediate, 1, Len(immediate) - 1)
    /\ UNCHANGED <<aggregates, onCalls, config, hasBus, supportsQueues, storageLog,
                   stored, handlers, received, namedQueues, onces, thrown,
                   onResults, nExternal>>

\* the callback given to setImmediate runs: publishEvents()
RunImmediate ==
    /\ immediate # <<>>
    /\ LET c == Head(immediate)
       IN /\ PublishEvents(c)
          /\ commits' = [commits EXCEPT
                 ![c].phase = "publishing",
                 ![c].pub = [i \in 1..Len(commits[c].stream) |-> "pending"],
                 ![c].all = "pending"]
    /\ immediate' = Tail(immediate)
    /\ UNCHANGED <<aggregates, onCalls, config, hasBus, supportsQueues, storageLog, stored, handlers,
                   received, namedQueues, onces, thrown, onResults, nExternal>>

\* Promise.all over the promises bus.publish returned, after one of them
\* settled with `outcome`: "resolved" once all are fulfilled, the error of the
\* first one rejected, "pending" otherwise
PromiseAll(all, pub, outcome) ==
    IF all # "pending" THEN all
    ELSE IF outcome # "ok" THEN outcome
    ELSE IF \A j \in 1..Len(pub) : pub[j] = "ok" THEN "resolved"
    ELSE "pending"

\* (mutant) a failed publish is logged and commit resolves all the same
AwaitPublishSwallowing(call, all) ==
    IF call.all # "pending" \/ all = "pending" THEN call
    ELSE IF config.publishAsync
        THEN [call EXCEPT !.phase = "done"]
    ELSE [call EXCEPT !.phase = "done", !.result = Resolved(call.stream)]

\* (mutant) publishEvents() is awaited in both publish modes
AwaitPublishInBothModes(call, all) ==
    IF call.all # "pending" \/ all = "pending" THEN call
    ELSE IF all = "resolved"
        THEN [call EXCEPT !.phase = "done", !.result = Resolved(call.stream)]
    ELSE [call EXCEPT !.phase = "done", !.result = Rejected(all)]

\* what `await publishEvents()` makes of commit when Promise.all settles
AwaitPublish(call, all) ==
    IF call.all # "pending" \/ all = "pending" THEN call
    ELSE IF config.publishAsync
        THEN [call EXCEPT !.phase = "done"]
    ELSE IF all = "resolved"
        THEN [call EXCEPT !.phase = "done", !.result = Resolved(call.stream)]
    ELSE [call EXCEPT !.phase = "done", !.result = Rejected(all)]

\* the promise bus.publish returned for event i of commit c settles
PublishSettles(c, i, outcome) ==
    /\ c \in 1..Len(commits)
    /\ i \in 1..Len(commits[c].pub)
    /\ commits[c].pub[i] = "pending"
    /\ LET pub == [commits[c].pub EXCEPT ![i] = outcome]
           all == PromiseAll(commits[c].all, pub, outcome)
           call == AwaitPublish(commits[c], all)
       IN commits' = [commits EXCEPT ![c] = [call EXCEPT !.pub = pub, !.all = all]]
    /\ UNCHANGED <<aggregates, onCalls, config, hasBus, supportsQueues, storageLog, stored, immediate,
                   published, handlers, inflight, received, namedQueues, onces,
                   thrown, onResults, nExternal>>

\* ------------------------------------------------------ getAggregateEvents

\* the storage's getAggregateEvents, for a storage that keeps the committed
\* batches in memory, in the order it accepted them
StorageGetAggregateEvents(aggregateId) ==
    SelectSeq(stored, LAMBDA e : Has(e, "aggregateId") /\ e.aggregateId = aggregateId)

\* (mutant) the events of every aggregate are returned
getAllAggregatesEvents(aggregateId) ==
    IF aggregateId = "" THEN Rejected("aggregateId argument required")
    ELSE Resolved(stored)

\* getAggregateEvents(aggregateId): EventStream.from copies the events the
\* storage returned, one by one and in order, into a new stream
getAggregateEvents(aggregateId) ==
    IF aggregateId = "" THEN Rejected("aggregateId argument required")
    ELSE LET events == StorageGetAggregateEvents(aggregateId)
         IN Resolved([i \in 1..Len(events) |-> events[i]])

\* --------------------------------------------------------------------- on

\* `${queueName}:${messageType}`
HandlerKey(queueName, messageType) == queueName \o ":" \o messageType

\* on(messageType, handler, { queueName })
On(messageType, handler, queueName) ==
    /\ Len(onResults) < MaxSubs
    /\ onCalls' = Append(onCalls, [messageType |-> messageType, handler |-> handler,
                                   queueName |-> queueName])
    /\ IF queueName # NoQueue /\ ~supportsQueues
       THEN IF ~Has(config, "hostname")
            THEN /\ onResults' = Append(onResults, "hostname is required")
                 /\ UNCHANGED <<namedQueues, handlers>>
            ELSE IF HandlerKey(queueName, messageType) \in {q.key : q \in namedQueues}
            THEN /\ onResults' = Append(onResults, "handler already set up")
                 /\ UNCHANGED <<namedQueues, handlers>>
            ELSE /\ namedQueues' = namedQueues \cup
                       {[key |-> HandlerKey(queueName, messageType), h |-> handler]}
                 /\ handlers' = EmitterOn(handlers, messageType, QueuedFn(handler))
                 /\ onResults' = Append(onResults, "ok")
       ELSE /\ handlers' = EmitterOn(handlers, messageType, PlainFn(handler))
            /\ onResults' = Append(onResults, "ok")
            /\ UNCHANGED namedQueues
    /\ UNCHANGED <<aggregates, config, hasBus, supportsQueues, commits, storageLog,
                   stored, immediate, published, inflight, received, onces, thrown,
                   nExternal>>

\* ------------------------------------------------------------------- once

RECURSIVE SubscribeAll(_, _, _)
SubscribeAll(hs, messageTypes, fn) ==
    IF messageTypes = <<>> THEN hs
    ELSE SubscribeAll(EmitterOn(hs, Head(messageTypes), fn), Tail(messageTypes), fn)

\* (mutant) only the first listed type is unsubscribed
UnsubscribeHeadOnly(hs, messageTypes, fn) ==
    EmitterRemoveListener(hs, Head(messageTypes), fn)

RECURSIVE UnsubscribeAll(_, _, _)
UnsubscribeAll(hs, messageTypes, fn) ==
    IF messageTypes = <<>> THEN hs
    ELSE UnsubscribeAll(EmitterRemoveListener(hs, Head(messageTypes), fn),
                        Tail(messageTypes), fn)

\* once(messageTypes, handler, filter)
Once(messageTypes, handler, filter) ==
    /\ Len(onces) < MaxOnce
    /\ onces' = Append(onces,
           [types |-> messageTypes, handler |-> handler, filter |-> filter,
            handled |-> FALSE, seen |-> <<>>, calls |-> <<>>, resolves |-> 0,
            promise |-> Pending])
    /\ handlers' = SubscribeAll(handlers, messageTypes, OnceFn(Len(onces) + 1))
    /\ UNCHANGED <<aggregates, onCalls, config, hasBus, supportsQueues, commits, storageLog, stored,
                   immediate, published, inflight, received, namedQueues, thrown,
                   onResults, nExternal>>

\* the latch of filteredHandler: does this call run the handler body?
Latched(once, event) ==
    /\ FilterPasses(once.filter, event)
    /\ ~once.handled

\* resolve(event): a promise settles once, later calls of resolve do nothing
Resolve(once, event) ==
    [once EXCEPT !.resolves = @ + 1,
                 !.promise = IF @ = Pending THEN Resolved(event) ELSE @]

\* filteredHandler(event) of one-time subscription o
\* (`seen` notes every event the emitter passed to it)
FilteredHandler(o, event) ==
    IF ~Latched(onces[o], event)
    THEN /\ onces' = [onces EXCEPT ![o].seen = Append(@, event)]
         /\ UNCHANGED <<handlers, thrown>>
    ELSE /\ handlers' = UnsubscribeAll(handlers, onces[o].types, OnceFn(o))
         /\ LET latched == [onces[o] EXCEPT !.handled = TRUE, !.seen = Append(@, event)]
                called == [latched EXCEPT !.calls = Append(@, event)]
            IN IF onces[o].handler = NoHandler
               THEN /\ onces' = [onces EXCEPT ![o] = Resolve(latched, event)]
                    /\ UNCHANGED thrown
               ELSE IF onces[o].handler = "kThrows"
               THEN /\ onces' = [onces EXCEPT ![o] = called]
                    /\ thrown' = thrown \cup {"handler threw"}
               ELSE /\ onces' = [onces EXCEPT ![o] = Resolve(called, event)]
                    /\ UNCHANGED thrown

\* ------------------------------------------------------------- deliveries

\* the callback on subscribes for a named queue the emitter does not support
QueuedHandler(h, event) ==
    IF ~Has(event, "context")
    THEN /\ thrown' = thrown \cup {"Cannot read property 'hostname' of undefined"}
         /\ UNCHANGED received
    ELSE IF ~Has(event.context, "hostname") \/ event.context.hostname # config.hostname
    THEN UNCHANGED <<received, thrown>>
    ELSE /\ received' = [received EXCEPT ![h] = Append(@, event)]
         /\ UNCHANGED thrown

\* the emitter invokes the next callback it owes an event
Deliver ==
    /\ inflight # <<>>
    /\ LET d == Head(inflight)
       IN CASE d.fn.kind = "plain" ->
                  /\ received' = [received EXCEPT ![d.fn.h] = Append(@, d.e)]
                  /\ UNCHANGED <<onces, handlers, thrown>>
            [] d.fn.kind = "queued" ->
                  /\ QueuedHandler(d.fn.h, d.e)
                  /\ UNCHANGED <<onces, handlers>>
            [] d.fn.kind = "once" ->
                  /\ FilteredHandler(d.fn.o, d.e)
                  /\ UNCHANGED received
    /\ inflight' = Tail(inflight)
    /\ UNCHANGED <<aggregates, onCalls, config, hasBus, supportsQueues, commits, storageLog, stored,
                   immediate, published, namedQueues, onResults, nExternal>>

\* the emitter delivers an event that was not committed through this store
EmitterEmits(event) ==
    /\ nExternal < MaxExternal
    /\ nExternal' = nExternal + 1
    /\ inflight' = inflight \o Deliveries(handlers, event)
    /\ UNCHANGED <<aggregates, onCalls, config, hasBus, supportsQueues, commits, storageLog, stored,
                   immediate, published, handlers, received, namedQueues, onces,
                   thrown, onResults>>

\* ------------------------------------------------------------- aggregates
\* (src/unnamed/part_000, AbstractAggregate)

\* JavaScript values given as the eventType of emit
Str(s) == [typeof |-> "string", s |-> s]
NotAString == [typeof |-> "undefined"]

\* options.state is absent
NoState == [kind |-> "undefined"]
\* a state object: it counts the events applied to it, and its mutate throws
\* on events of type "Bad", possibly after it has touched the state
StateObject == [kind |-> "object", applied |-> 0, touched |-> FALSE]

\* state.mutate(event) throws
StateThrows(state, event) == event.type = "Bad"

\* what state.mutate(event) leaves of the state
StateMutate(state, event) ==
    IF StateThrows(state, event) THEN [state EXCEPT !.touched = TRUE]
    ELSE [state EXCEPT !.applied = @ + 1]

\* the fields of a new instance (constructor, before the replay);
\* `given`, `replayed`, `calls`, `emitted` and `error` note the events given
\* to the constructor, the version after the replay, the calls of emit, those
\* that returned, and the error thrown by the latest call; `commit` is the call
\* of commit the changes were given to (0: none)
NewAggregate(options) ==
    [id |-> options.id, version |-> 0, changes |-> <<>>,
     state |-> IF Has(options, "state") THEN options.state ELSE NoState,
     given |-> IF Has(options, "events") THEN options.events ELSE <<>>,
     replayed |-> 0, calls |-> 0, emitted |-> 0, error |-> "none",
     constructed |-> FALSE, commit |-> 0]

\* (mutant) the version is never incremented
mutateKeepingVersion(agg, event) ==
    IF agg.state # NoState /\ StateThrows(agg.state, event)
    THEN [agg EXCEPT !.state = StateMutate(@, event), !.error = "state.mutate failed"]
    ELSE [agg EXCEPT !.state = IF @ = NoState THEN @ ELSE StateMutate(@, event)]

\* (mutant) the version is incremented before the state is mutated
mutateVersionFirst(agg, event) ==
    IF agg.state # NoState /\ StateThrows(agg.state, event)
    THEN [agg EXCEPT !.state = StateMutate(@, event), !.version = @ + 1,
                     !.error = "state.mutate failed"]
    ELSE [agg EXCEPT !.state = IF @ = NoState THEN @ ELSE StateMutate(@, event),
                     !.version = @ + 1]

\* mutate(event): state.mutate(event) if there is a state, then version++
mutate(agg, event) ==
    IF agg.state # NoState /\ StateThrows(agg.state, event)
    THEN [agg EXCEPT !.state = StateMutate(@, event), !.error = "state.mutate failed"]
    ELSE [agg EXCEPT !.state = IF @ = NoState THEN @ ELSE StateMutate(@, event),
                     !.version = @ + 1]

\* options.events.forEach(e => this.mutate(e)): ends at the first throw
RECURSIVE Replay(_, _)
Replay(agg, events) ==
    IF events = <<>> \/ agg.error # "none" THEN agg
    ELSE Replay(mutate(agg, Head(events)), Tail(events))

\* new Aggregate(options): the instance, `constructed` if no error was thrown
Constructor(options) ==
    IF ~Has(options, "id")
    THEN [NewAggregate([id |-> ""]) EXCEPT !.error = "options.id argument required"]
    ELSE LET replayed == Replay(NewAggregate(options),
                                IF Has(options, "events") THEN options.events ELSE <<>>)
         IN [replayed EXCEPT !.replayed = replayed.version,
                             !.constructed = (replayed.error = "none")]

\* (mutant) the event is stamped with the version after it was applied
emitStampedAfter(agg, eventType, eventPayload) ==
    IF eventType.typeof # "string" \/ Len(eventType.s) = 0
    THEN [agg EXCEPT !.calls = @ + 1,
                     !.error = "eventType argument must be a non-empty string"]
    ELSE LET called == [agg EXCEPT !.calls = @ + 1, !.error = "none"]
             event == Assign([aggregateId |-> agg.id, version |-> agg.version + 1,
                              type |-> eventType.s], eventPayload)
             mutated == mutate(called, event)
         IN IF mutated.error # "none" THEN mutated
            ELSE [mutated EXCEPT !.changes = Append(@, event), !.emitted = @ + 1]

\* emit(eventType, eventPayload); eventPayload is given as the properties it
\* adds to the event: none when it is undefined
emit(agg, eventType, eventPayload) ==
    IF eventType.typeof # "string" \/ Len(eventType.s) = 0
    THEN [agg EXCEPT !.calls = @ + 1,
                     !.error = "eventType argument must be a non-empty string"]
    ELSE LET called == [agg EXCEPT !.calls = @ + 1, !.error = "none"]
             event == Assign([aggregateId |-> agg.id, version |-> agg.version,
                              type |-> eventType.s], eventPayload)
             mutated == mutate(called, event)
         IN IF mutated.error # "none" THEN mutated
            ELSE [mutated EXCEPT !.changes = Append(@, event), !.emitted = @ + 1]

\* the store and its collaborators, which the aggregate does not touch
storeVars == <<config, hasBus, supportsQueues, commits, storageLog, stored,
               immediate, published, handlers, inflight, received, namedQueues,
               onces, thrown, onResults, nExternal, onCalls>>

\* new Aggregate(options)
Construct(options) ==
    /\ aggregates' = Append(aggregates, Constructor(options))
    /\ UNCHANGED storeVars

\* aggregate a emits an event
Emit(a, eventType, eventPayload) ==
    /\ a \in 1..Len(aggregates)
    /\ aggregates[a].constructed
    /\ aggregates[a].calls < MaxEmits
    /\ aggregates' = [aggregates EXCEPT ![a] = emit(@, eventType, eventPayload)]
    /\ UNCHANGED storeVars

\* the values the aggregates are given
AggregateIds == {"a1"}
EventTypes == {Str("A"), Str("Bad"), Str(""), NotAString}
EventPayloads == {EmptyObj, [payload |-> "p1"]}
\* a history of n events of aggregate id whose types are those of `types`
HistoryOf(id, types) ==
    [i \in 1..Len(types) |-> [aggregateId |-> id, version |-> i - 1, type |-> types[i]]]
\* the sequences of up to n elements of S
RECURSIVE SeqsUpTo(_, _)
SeqsUpTo(S, n) ==
    IF n = 0 THEN {<<>>}
    ELSE SeqsUpTo(S, n - 1) \cup
         {Append(s, x) : s \in {t \in SeqsUpTo(S, n - 1) : Len(t) = n - 1}, x \in S}
Histories == {HistoryOf("a1", types) : types \in SeqsUpTo({"A", "Bad"}, MaxHistory)}
AggregateOptions ==
    {EmptyObj, [id |-> "a1"]}
    \cup {[id |-> "a1", events |-> h] : h \in Histories}
    \cup {[id |-> "a1", state |-> StateObject, events |-> h] : h \in Histories}

\* ------------------------------------------------------------------- Next

\* the function the next call of on is given
NextHandler == HandlerNames[Len(onResults) + 1]

\* the steps of a commit that storage and timers take
CommitNext ==
    \/ \E c \in 1..MaxCommits, err \in StorageErrors : StorageFails(c, err)
    \/ \E c \in 1..MaxCommits : StorageSucceeds(c)
    \/ RunImmediate

Next ==
    \/ \E events \in Batches, sourceCommand \in SourceCommands :
           Commit(events, sourceCommand)
    \/ CommitNext
    \/ \E c \in 1..MaxCommits, i \in 1..MaxBatch :
           \E outcome \in {"ok", PublishError(i)} : PublishSettles(c, i, outcome)

\* commits on a store nobody subscribes to, with or without a bus
StoreInit == Init /\ ~supportsQueues
Spec == StoreInit /\ [][Next]_vars

\* the batches committed while subscriptions are followed
BusBatches == {<<>>, <<EvA>>, <<EvA, EvB>>}
BusCommands == {NoCmd, CmdSaga}

BusNext ==
    \/ \E events \in BusBatches, sourceCommand \in BusCommands :
           Commit(events, sourceCommand)
    \/ CommitNext
    \/ \E messageType \in MessageTypes, queueName \in QueueNames :
           On(messageType, NextHandler, queueName)
    \/ Deliver

\* commits on a store with a message bus, subscriptions made with on, and the
\* deliveries of the committed events.  The promises bus.publish returns touch
\* neither subscriptions nor deliveries: Spec follows them, BusSpec leaves them
\* pending.
BusInit == Init /\ hasBus
BusSpec == BusInit /\ [][BusNext]_vars

\* the runs of BusSpec in which the handlers are subscribed before the first
\* commit is called
DeliveryNext ==
    \/ \E events \in BusBatches, sourceCommand \in BusCommands :
           Commit(events, sourceCommand)
    \/ CommitNext
    \/ /\ commits = <<>>
       /\ \E messageType \in MessageTypes, queueName \in QueueNames :
              On(messageType, NextHandler, queueName)
    \/ Deliver

\* the event loop runs every callback given to setImmediate, and the emitter
\* finishes the deliveries it started
DeliverySpec ==
    BusInit /\ [][DeliveryNext]_vars /\ WF_vars(RunImmediate) /\ WF_vars(Deliver)

EmitterNext ==
    \/ \E messageTypes \in OnceTypeLists, handler \in OnceHandlers, filter \in OnceFilters :
           Once(messageTypes, handler, filter)
    \/ /\ Len(onResults) < MaxOtherSubs
       /\ \E messageType \in MessageTypes : On(messageType, NextHandler, NoQueue)
    \/ Deliver
    \/ \E event \in ExternalEvents : EmitterEmits(event)

\* subscriptions made with on and once, and the events the emitter delivers
EmitterInit ==
    Init /\ hasBus /\ ~supportsQueues /\ config = [publishAsync |-> TRUE, hostname |-> "h1"]
EmitterSpec == EmitterInit /\ [][EmitterNext]_vars

\* ------------------------------------------------------- concurrent commits
\* an event of another aggregate
EvOther == [type |-> "A", aggregateId |-> "a2"]
ConcurrentBatches == {<<EvA>>, <<EvA, EvB>>, <<EvOther>>}

ConcurrentCommit(events, sourceCommand) ==
    /\ Len(commits) < MaxConcurrent
    /\ CommitCall(events, sourceCommand)
    /\ UNCHANGED aggregates

ConcurrentNext ==
    \/ \E events \in ConcurrentBatches : ConcurrentCommit(events, NoCmd)
    \/ \E c \in 1..MaxConcurrent, err \in StorageErrors : StorageFails(c, err)
    \/ \E c \in 1..MaxConcurrent : StorageSucceeds(c)
    \/ RunImmediate
    \/ \E c \in 1..MaxConcurrent, i \in 1..MaxBatch :
           \E outcome \in {"ok", PublishError(i)} : PublishSettles(c, i, outcome)

\* several calls of commit whose storage calls and publishes are interleaved
ConcurrentSpec == StoreInit /\ [][ConcurrentNext]_vars

\* --------------------------------------------------- optimistic concurrency
\* a command execution restores the aggregate from its persisted events
Load(aggregateId) ==
    /\ Len(aggregates) < MaxConcurrent
    /\ Construct([id |-> aggregateId, events |-> getAggregateEvents(aggregateId).value])

\* a command execution commits the changes of aggregate a
CommitChanges(a) ==
    /\ a \in 1..Len(aggregates)
    /\ aggregates[a].constructed
    /\ aggregates[a].commit = 0
    /\ Len(commits) < MaxConcurrent
    /\ CommitCall(aggregates[a].changes, NoCmd)
    /\ aggregates' = [aggregates EXCEPT ![a].commit = Len(commits) + 1]

\* the batch of commit c carries the version the storage expects next for the
\* aggregate of its first event: the number of events it holds for it
VersionExpected(c) ==
    LET first == commits[c].stream[1]
    IN first.version = Len(StorageGetAggregateEvents(first.aggregateId))

\* a storage with optimistic concurrency control settles commitEvents: it
\* rejects a batch whose first event does not carry the expected version
OptimisticStorage(c) ==
    /\ c \in 1..Len(commits)
    /\ commits[c].phase = "storing"
    /\ IF VersionExpected(c) THEN StorageSucceeds(c) ELSE StorageFails(c, "conflict")

\* the events the storage holds at the start
PersistedHistories ==
    {HistoryOf("a1", [i \in 1..n |-> "A"]) : n \in 0..MaxHistory}

\* (the store has no message bus: the storage is its emitter)
OptimisticInit ==
    /\ config \in {cfg \in Configs : cfg.publishAsync}
    /\ hasBus = FALSE
    /\ supportsQueues = FALSE
    /\ commits = <<>>
    /\ storageLog = <<>>
    /\ stored \in PersistedHistories
    /\ immediate = <<>>
    /\ published = <<>>
    /\ handlers = <<>>
    /\ inflight = <<>>
    /\ received = [h \in Handlers |-> <<>>]
    /\ namedQueues = {}
    /\ onces = <<>>
    /\ thrown = {}
    /\ onResults = <<>>
    /\ nExternal = 0
    /\ onCalls = <<>>
    /\ aggregates = <<>>

OptimisticNext ==
    \/ \E aggregateId \in AggregateIds : Load(aggregateId)
    \/ \E a \in 1..MaxConcurrent : Emit(a, Str("A"), EmptyObj)
    \/ \E a \in 1..MaxConcurrent : CommitChanges(a)
    \/ \E c \in 1..MaxConcurrent : OptimisticStorage(c)

\* command executions that restore an aggregate, emit events and commit them,
\* interleaved, on a storage that checks the version of what it is given
OptimisticSpec == OptimisticInit /\ [][OptimisticNext]_vars

\* ------------------------------------------------------------ named queues
\* the arguments on is called with while the named queues are followed: the
\* pairs ("q1", "A:B") and ("q1:A", "B") differ in both components
QueueMessageTypes == {"A", "B", "A:B"}
NamedQueues == {"q1", "q1:A"}

\* the events the emitter delivers to the handlers of named queues: committed
\* on this node, on another node, with a context that has no hostname, and
\* with no context
QueueEvents ==
    {[type |-> "A", aggregateId |-> "a9", context |-> [hostname |-> "h1"]],
     [type |-> "A", aggregateId |-> "a9", context |-> [hostname |-> "h2"]],
     [type |-> "A", aggregateId |-> "a9", context |-> [user |-> "u2"]],
     [type |-> "A", aggregateId |-> "a9"]}

QueueNext ==
    \/ \E messageType \in QueueMessageTypes, queueName \in NamedQueues :
           On(messageType, NextHandler, queueName)
    \/ Deliver
    \/ \E event \in QueueEvents : EmitterEmits(event)

\* subscriptions to named queues on an emitter without native queues, and the
\* events that emitter delivers
QueueInit == Init /\ hasBus /\ ~supportsQueues
QueueSpec == QueueInit /\ [][QueueNext]_vars

\* -------------------------------------------------------- aggregate alone
AggregateNext ==
    \/ /\ aggregates = <<>>
       /\ \E options \in AggregateOptions : Construct(options)
    \/ \E a \in 1..Len(aggregates), eventType \in EventTypes, eventPayload \in EventPayloads :
           Emit(a, eventType, eventPayload)

\* one aggregate instance, constructed from a history, and the events it emits
AggregateInit == Init /\ ~hasBus /\ ~supportsQueues /\ config = [publishAsync |-> TRUE]
AggregateSpec == AggregateInit /\ [][AggregateNext]_vars

\* ============================================================== properties

\* the calls of bus.publish made for commit c, in call order
PublishedOf(c) == SelectSeq(published, LAMBDA p : p.c = c)

\* the calls of storage.commitEvents made for commit c
StorageCallsOf(c) == {k \in 1..Len(storageLog) : storageLog[k].c = c}

\* storage.commitEvents has completed successfully for commit c
Persisted(c) == \E k \in StorageCallsOf(c) : storageLog[k].outcome = "ok"

\* the publishes of commit c that have failed
FailedPublishes(c) ==
    {i \in 1..Len(commits[c].pub) : commits[c].pub[i] \notin {"pending", "ok"}}

\* commit c is among the commits whose publishEvents is scheduled and not run
Scheduled(c) == \E k \in 1..Len(immediate) : immediate[k] = c

\* s occurs in t as a run of consecutive elements
IsRunOf(s, t) ==
    \E k \in 0..(Len(t) - Len(s)) : \A i \in 1..Len(s) : t[k + i] = s[i]

\* ---------------------------------------------------------------------- C1
\* C1: a commit one of whose augmented events fails the validator, at whatever
\* position, rejects, never reaches storage.commitEvents and has none of its
\* events published.
C1_NoPartialCommit ==
    \A c \in 1..Len(commits) :
        LET augmented == augmentEvents(commits[c].events, commits[c].cmd, config)
        IN (\E i \in 1..Len(augmented) : validateEvent(augmented[i]) # "none") =>
               /\ commits[c].result.kind = "rejected"
               /\ StorageCallsOf(c) = {}
               /\ PublishedOf(c) = <<>>
               /\ ~IsRunOf(augmented, stored)

\* a commit was rejected for its second event, the first being valid
C1_Witness ==
    \E c \in 1..Len(commits) :
        /\ Len(commits[c].events) = 2
        /\ validateEvent(commits[c].stream[1]) = "none"
        /\ validateEvent(commits[c].stream[2]) # "none"
        /\ commits[c].result.kind = "rejected"

\* ---------------------------------------------------------------------- C2
\* C2: bus.publish is called for an event of a commit only after
\* storage.commitEvents has succeeded for that commit; when it fails, commit
\* rejects with the storage's error, storage.commitEvents is not called again
\* and none of the commit's events is published.
C2_PersistBeforePublish ==
    /\ \A k \in 1..Len(published) : Persisted(published[k].c)
    /\ \A c \in 1..Len(commits) : Cardinality(StorageCallsOf(c)) <= 1
    /\ \A k \in 1..Len(storageLog) :
           storageLog[k].outcome \notin {"pending", "ok"} =>
               /\ commits[storageLog[k].c].result = Rejected(storageLog[k].outcome)
               /\ PublishedOf(storageLog[k].c) = <<>>

\* the events of a persisted commit were published while commit was pending
C2_Witness ==
    \E c \in 1..Len(commits) :
        /\ Persisted(c)
        /\ Len(PublishedOf(c)) = 2
        /\ commits[c].result.kind = "pending"

\* ---------------------------------------------------------------------- C3
\* commit c is past its persistence on a store that publishes synchronously
SyncCommit(c) == hasBus /\ ~config.publishAsync /\ Persisted(c)

\* C3 as claimed: in synchronous mode commit settles only after every publish
\* of the batch has settled, resolves only if all of them succeeded, and
\* rejects with the publish error, the batch staying persisted, if one failed.
C3_SettlesAfterAllPublishes ==
    \A c \in 1..Len(commits) :
        SyncCommit(c) =>
            /\ commits[c].result.kind # "pending" =>
                   \A i \in 1..Len(commits[c].pub) : commits[c].pub[i] # "pending"
            /\ commits[c].result.kind = "resolved" =>
                   \A i \in 1..Len(commits[c].pub) : commits[c].pub[i] = "ok"
            /\ FailedPublishes(c) # {} =>
                   /\ commits[c].result.kind = "rejected"
                   /\ IsRunOf(commits[c].stream, stored)

\* C3 as amended, in every state: commit is pending exactly while no publish
\* has failed and one is still pending; it resolves only if all succeeded; if
\* one failed it is rejected with the error of a failed publish and the batch
\* is still in storage.
C3_SyncState ==
    \A c \in 1..Len(commits) :
        SyncCommit(c) =>
            /\ commits[c].result.kind = "pending" <=>
                   /\ FailedPublishes(c) = {}
                   /\ \E i \in 1..Len(commits[c].pub) : commits[c].pub[i] = "pending"
            /\ commits[c].result.kind = "resolved" =>
                   /\ \A i \in 1..Len(commits[c].pub) : commits[c].pub[i] = "ok"
                   /\ commits[c].result.value = commits[c].stream
            /\ FailedPublishes(c) # {} =>
                   /\ commits[c].result.kind = "rejected"
                   /\ \E i \in FailedPublishes(c) :
                          commits[c].result.error = commits[c].pub[i]
                   /\ IsRunOf(commits[c].stream, stored)

\* C3 as amended, in every step: the publish that fails while commit is
\* pending is the one commit rejects with, and a settled commit stays as it is.
C3_SyncStep ==
    \A c \in 1..Len(commits) :
        SyncCommit(c) =>
            /\ \A i \in 1..Len(commits[c].pub) :
                   (/\ commits[c].result.kind = "pending"
                    /\ commits[c].pub[i] = "pending"
                    /\ commits'[c].pub[i] \notin {"pending", "ok"})
                   => commits'[c].result = Rejected(commits'[c].pub[i])
            /\ commits[c].result.kind # "pending" =>
                   commits'[c].result = commits[c].result

\* C3 (amended): in synchronous mode commit settles as soon as every publish of
\* the batch has succeeded or the first one has failed, others possibly still
\* pending; it resolves only if all succeeded, and rejects with the error of
\* the publish that failed first, the batch staying persisted.
C3_SyncPublish == []C3_SyncState /\ [][C3_SyncStep]_vars

\* commit was rejected with a publish error while another publish of the batch
\* is still pending and the batch is in storage
C3_Witness ==
    \E c \in 1..Len(commits) :
        /\ SyncCommit(c)
        /\ commits[c].result.kind = "rejected"
        /\ FailedPublishes(c) # {}
        /\ \E i \in 1..Len(commits[c].pub) : commits[c].pub[i] = "pending"
        /\ IsRunOf(commits[c].stream, stored)

\* ---------------------------------------------------------------------- C4
\* commit c is past its persistence on a store that publishes asynchronously
AsyncCommit(c) == hasBus /\ config.publishAsync /\ Persisted(c)

\* C4: in asynchronous mode commit is resolved with the augmented stream from
\* the moment storage.commitEvents has succeeded, so before bus.publish is
\* called for any event of the batch, and it stays so whatever the publishes
\* do.
C4_AsyncResolvesFirst ==
    \A c \in 1..Len(commits) :
        AsyncCommit(c) =>
            /\ commits[c].result =
                   Resolved(augmentEvents(commits[c].events, commits[c].cmd, config))
            /\ \A k \in 1..Len(published) :
                   published[k].c = c => published[k].at = "resolved"

\* a publish of an asynchronously published batch has failed
C4_Witness ==
    \E c \in 1..Len(commits) :
        /\ AsyncCommit(c)
        /\ FailedPublishes(c) # {}
        /\ commits[c].result.kind = "resolved"
\* ---------------------------------------------------------------------- C5
\* how often event e occurs in sequence s
CountIn(s, e) == Cardinality({k \in 1..Len(s) : s[k] = e})

\* the subscriptions made with on before commit c was called
OnSubsBefore(c) ==
    {commits[c].subs[k] : k \in {j \in 1..Len(commits[c].subs) :
                                    commits[c].subs[j].fn.kind \in {"plain", "queued"}}}

\* the calls of bus.publish with event e for commits called after sub was made
Owed(sub, e) ==
    Cardinality({k \in 1..Len(published) :
        /\ published[k].e = e
        /\ sub \in OnSubsBefore(published[k].c)})

\* event e carries the hostname of this store
HasOwnHostname(e) ==
    /\ Has(e, "context")
    /\ Has(e.context, "hostname")
    /\ Has(config, "hostname")
    /\ e.context.hostname = config.hostname

\* every event of commit c was published and delivered to the subscriptions
\* made with on before the commit, as far as `due` asks
DeliveredTo(c, due(_, _)) ==
    /\ c \in 1..Len(commits)
    /\ Len(PublishedOf(c)) = Len(commits[c].stream)
    /\ \A i \in 1..Len(commits[c].stream), sub \in OnSubsBefore(c) :
           (sub.type = commits[c].stream[i].type /\ due(sub, commits[c].stream[i])) =>
               /\ CountIn(received[sub.fn.h], commits[c].stream[i]) >= 1
               /\ CountIn(received[sub.fn.h], commits[c].stream[i])
                      >= Owed(sub, commits[c].stream[i])

DueToAll(sub, e) == TRUE

DueUnlessOtherNode(sub, e) == sub.fn.kind = "plain" \/ HasOwnHostname(e)

C6_OrderWithinCommit ==
    \A c \in 1..Len(commits) :
        LET n == Len(commits[c].events)
            p == PublishedOf(c)
        IN /\ \A k \in StorageCallsOf(c) :
                  /\ Len(storageLog[k].stream) = n
                  /\ \A i \in 1..n :
                         storageLog[k].stream[i] =
                             augmentEvents(<<commits[c].events[i]>>, commits[c].cmd, config)[1]
           /\ Len(p) \in {0, n}
           /\ \A j \in 1..Len(p) :
                  /\ p[j].i = j
                  /\ p[j].e = augmentEvents(<<commits[c].events[j]>>, commits[c].cmd, config)[1]
           /\ (hasBus /\ Persisted(c) /\ ~Scheduled(c)) => Len(p) = n

\* a batch of two different events was published asynchronously
C6_Witness ==
    \E c \in 1..Len(commits) :
        /\ config.publishAsync
        /\ Len(PublishedOf(c)) = 2
        /\ PublishedOf(c)[1].e # PublishedOf(c)[2].e

\* ---------------------------------------------------------------------- C7
\* the step is a call of commit with an empty array
EmptyCommitCall ==
    /\ Len(commits') = Len(commits) + 1
    /\ commits'[Len(commits')].events = <<>>

\* commit([]) resolves to its input, calls neither the validator, nor
\* storage.commitEvents, nor bus.publish, and leaves the store, the storage
\* and the subscriptions as they were, whatever sourceCommand and
\* configuration.
C7_EmptyCommitStep ==
    EmptyCommitCall =>
        /\ commits'[Len(commits')].result = Resolved(commits'[Len(commits')].events)
        /\ commits'[Len(commits')].validated = 0
        /\ SubSeq(commits', 1, Len(commits)) = commits
        /\ UNCHANGED <<aggregates, onCalls, config, hasBus, supportsQueues, storageLog, stored, immediate,
                       published, handlers, inflight, received, namedQueues, onces,
                       thrown, onResults, nExternal>>

\* C7: every call of commit with an empty array is such a step: commit([])
\* is a no-op on the store, the storage, the bus and the subscriptions.
C7_EmptyCommitIsNoOp == [][C7_EmptyCommitStep]_vars

\* commit([]) was called with a sourceCommand on a store that has a subscriber
C7_Witness ==
    \E c \in 1..Len(commits) :
        /\ commits[c].events = <<>>
        /\ commits[c].cmd = CmdSaga
        /\ commits[c].result.kind = "resolved"
        /\ handlers # <<>>

\* ---------------------------------------------------------------------- C8
CommandFields == {"sagaId", "sagaVersion", "context"}

\* r is event with the fields of sourceCommand that event does not define
CarriesCommandFields(r, event, sourceCommand) ==
    /\ DOMAIN r = (DOMAIN event) \cup (CommandFields \cap DOMAIN sourceCommand)
    /\ \A k \in DOMAIN event : r[k] = event[k]
    /\ \A k \in (CommandFields \cap DOMAIN sourceCommand) \ DOMAIN event :
           r[k] = sourceCommand[k]

\* the stream commit c returned is the one given to storage and to the bus
ReturnedIsCommitted(c) ==
    /\ \A k \in StorageCallsOf(c) : storageLog[k].stream = commits[c].result.value
    /\ \A j \in 1..Len(PublishedOf(c)) :
           PublishedOf(c)[j].e = commits[c].result.value[PublishedOf(c)[j].i]

\* C8 as claimed: the stream commit returns for a non-empty array has the
\* length of the input, its i-th element is the i-th input event with sagaId,
\* sagaVersion and context taken from sourceCommand where the event defines
\* none, and it is the stream given to storage and published.
C8_FieldsFromCommandOnly ==
    \A c \in 1..Len(commits) :
        (commits[c].events # <<>> /\ commits[c].result.kind = "resolved") =>
            /\ Len(commits[c].result.value) = Len(commits[c].events)
            /\ \A i \in 1..Len(commits[c].events) :
                   CarriesCommandFields(commits[c].result.value[i],
                                        commits[c].events[i], commits[c].cmd)
            /\ ReturnedIsCommitted(c)

\* the context given to an event that defines none: sourceCommand's context,
\* on a store with a hostname extended by hostname where it has no such key
IsGivenContext(r, sourceCommand) ==
    LET given == IF Has(sourceCommand, "context") THEN sourceCommand.context ELSE EmptyObj
        tagged == Has(config, "hostname")
    IN IF ~tagged /\ ~Has(sourceCommand, "context") THEN ~Has(r, "context")
       ELSE /\ Has(r, "context")
            /\ DOMAIN r.context = (DOMAIN given) \cup (IF tagged THEN {"hostname"} ELSE {})
            /\ \A k \in DOMAIN given : r.context[k] = given[k]
            /\ (tagged /\ ~Has(given, "hostname")) => r.context.hostname = config.hostname

\* C8 (amended): as claimed, except that on a store configured with a hostname
\* the context given to an event that defines none is sourceCommand's context
\* extended by hostname (the store's, unless sourceCommand's context has that
\* key), also when sourceCommand has no context.
C8_AugmentedStream ==
    \A c \in 1..Len(commits) :
        (commits[c].events # <<>> /\ commits[c].result.kind = "resolved") =>
            /\ Len(commits[c].result.value) = Len(commits[c].events)
            /\ \A i \in 1..Len(commits[c].events) :
                   LET r == commits[c].result.value[i]
                       event == commits[c].events[i]
                   IN /\ \A k \in DOMAIN event : Has(r, k) /\ r[k] = event[k]
                      /\ DOMAIN r \subseteq (DOMAIN event) \cup CommandFields
                      /\ \A k \in {"sagaId", "sagaVersion"} \ DOMAIN event :
                             /\ Has(r, k) <=> Has(commits[c].cmd, k)
                             /\ Has(r, k) => r[k] = commits[c].cmd[k]
                      /\ ~Has(event, "context") => IsGivenContext(r, commits[c].cmd)
            /\ ReturnedIsCommitted(c)

\* a published batch with an event that defines its own sagaId and context,
\* committed with a sourceCommand on a store with a hostname, was returned
C8_Witness ==
    \E c \in 1..Len(commits) :
        /\ commits[c].result.kind = "resolved"
        /\ commits[c].cmd = CmdSaga
        /\ Has(config, "hostname")
        /\ commits[c].events = <<EvA, EvB>>
        /\ Len(PublishedOf(c)) = 2
\* ---------------------------------------------------------------------- C9
\* an event passed to one-time subscription o satisfied its filter
Matched(o) == \E k \in 1..Len(onces[o].seen) : FilterPasses(onces[o].filter, onces[o].seen[k])

\* the first such event
FirstMatch(o) ==
    LET hits == {k \in 1..Len(onces[o].seen) :
                    FilterPasses(onces[o].filter, onces[o].seen[k])}
    IN onces[o].seen[CHOOSE k \in hits : \A j \in hits : k <= j]

\* C9: whatever events are delivered on the listed types, the handler of once
\* is invoked at most once and the promise resolves exactly once, with the
\* first delivered event that satisfies the filter; later events change nothing.
C9_FiresOnce ==
    \A o \in 1..Len(onces) :
        /\ Len(onces[o].calls) <= 1
        /\ onces[o].resolves <= 1
        /\ ~Matched(o) => onces[o].calls = <<>> /\ onces[o].promise = Pending
        /\ Matched(o) =>
               /\ onces[o].promise = Resolved(FirstMatch(o))
               /\ onces[o].resolves = 1
               /\ onces[o].handler # NoHandler => onces[o].calls = <<FirstMatch(o)>>

\* --------------------------------------------------------------------- C10
\* the subscriptions of one-time subscription o to type t
SubscriptionsOf(o, t) ==
    Cardinality({i \in 1..Len(handlers) : handlers[i] = [type |-> t, fn |-> OnceFn(o)]})

\* how often type t is listed in the messageTypes of o
ListedTimes(o, t) ==
    Cardinality({i \in 1..Len(onces[o].types) : onces[o].types[i] = t})

\* C10: as long as no delivered event satisfies the filter the one-time
\* callback is subscribed to every listed type and the promise is pending; from
\* the first matching event on it is subscribed to none of them; and no
\* subscription made with on is ever removed.
C10_OnceLifetime ==
    /\ \A o \in 1..Len(onces) :
           /\ ~Matched(o) =>
                  /\ \A t \in MessageTypes : SubscriptionsOf(o, t) = ListedTimes(o, t)
                  /\ onces[o].promise = Pending
           /\ Matched(o) => \A t \in MessageTypes : SubscriptionsOf(o, t) = 0
    /\ \A n \in 1..Len(onResults) :
           onResults[n] = "ok" =>
               \E i \in 1..Len(handlers) : handlers[i].fn = PlainFn(HandlerNames[n])

\* a one-time subscription to A and B that waits for a B was passed an A, then
\* a B, beside a handler subscribed with on
C10_Witness ==
    \E o \in 1..Len(onces) :
        /\ onces[o].types = <<"A", "B">>
        /\ onces[o].filter = "isB"
        /\ Len(onces[o].seen) = 2
        /\ onces[o].seen[1].type = "A"
        /\ onces[o].seen[2].type = "B"
        /\ onces[o].handled
        /\ \E i \in 1..Len(handlers) : handlers[i].fn.kind = "plain"

\* --------------------------------------------------------------------- C11
\* call n of on named a queue the emitter has to emulate
Emulated(n) == onCalls[n].queueName # NoQueue /\ ~supportsQueues

\* an earlier call of on named the same (queueName, messageType) pair
IsDuplicate(n) ==
    \E m \in 1..(n - 1) :
        /\ onCalls[m].queueName = onCalls[n].queueName
        /\ onCalls[m].messageType = onCalls[n].messageType

\* the subscriptions the emitter holds for the handler given to call n of on
SubscribedTimes(n) ==
    Cardinality({i \in 1..Len(handlers) : handlers[i].fn = QueuedFn(onCalls[n].handler)})

\* C11: on a store with a hostname and an emitter without native queues, a call
\* of on with a queueName throws and subscribes nothing if an earlier call
\* named the same (queueName, messageType) pair, and is accepted if none did,
\* so that the first handler of each pair stays the only one subscribed.
C11_OnlyDuplicatesRejected ==
    Has(config, "hostname") =>
        \A n \in 1..Len(onCalls) :
            Emulated(n) =>
                /\ IsDuplicate(n) =>
                       /\ onResults[n] = "handler already set up"
                       /\ SubscribedTimes(n) = 0
                /\ ~IsDuplicate(n) =>
                       /\ onResults[n] = "ok"
                       /\ SubscribedTimes(n) = 1

\* --------------------------------------------------------------------- C12
\* the step in which the emitter passes an event to the callback that on
\* subscribed for a named queue
QueuedDelivery ==
    /\ inflight # <<>>
    /\ Head(inflight).fn.kind = "queued"
    /\ inflight' = Tail(inflight)

\* the handler is invoked with the event if and only if the event carries the
\* hostname of this store, and no error is raised either way
C12_FilterStep ==
    QueuedDelivery =>
        LET d == Head(inflight)
        IN /\ received' = IF HasOwnHostname(d.e)
                          THEN [received EXCEPT ![d.fn.h] = Append(@, d.e)]
                          ELSE received
           /\ thrown' = thrown

\* C12: of the events delivered on its messageType, the handler registered
\* with a queueName on a store with hostname H is invoked with those whose
\* context.hostname is H and with no other; every other event, committed on
\* another node or carrying no hostname, is skipped without an error.
C12_HostnameFilter == [][C12_FilterStep]_vars

\* --------------------------------------------------------------------- C13
\* the handlers subscribed for an emulated named queue before commit c
QueuedSubsBefore(c) == {sub \in OnSubsBefore(c) : sub.fn.kind = "queued"}

\* C13, for the runs that have come to rest: on a store with a hostname and an
\* emitter without native queues, every event committed through the store,
\* whatever context it or its sourceCommand carries, was delivered to the
\* handler registered with a queueName for its type, once per publication.
C13_LocalHandling ==
    \A c \in 1..Len(commits) :
        (Persisted(c) /\ ~Scheduled(c) /\ inflight = <<>>) =>
            \A i \in 1..Len(commits[c].stream), sub \in QueuedSubsBefore(c) :
                sub.type = commits[c].stream[i].type =>
                    CountIn(received[sub.fn.h], commits[c].stream[i])
                        = Owed(sub, commits[c].stream[i])

\* --------------------------------------------------------------------- C14
\* C14: an aggregate constructed from N events on which emit has returned k
\* times has version N + k and k changes, none of them a replayed event; its
\* i-th change (from 0) carries the aggregate's id and version N + i, the
\* version held just before the event was applied.
C14_VersionInvariant ==
    \A a \in 1..Len(aggregates) :
        aggregates[a].constructed =>
            LET agg == aggregates[a]
                N == Len(agg.given)
                k == agg.emitted
            IN /\ agg.version = N + k
               /\ Len(agg.changes) = k
               /\ \A i \in 1..k :
                      /\ agg.changes[i].aggregateId = agg.id
                      /\ agg.changes[i].version = N + (i - 1)
                      /\ \A j \in 1..N : agg.changes[i] # agg.given[j]

\* an aggregate built from two events has emitted two events, with a state
C14_Witness ==
    \E a \in 1..Len(aggregates) :
        /\ aggregates[a].constructed
        /\ aggregates[a].state # NoState
        /\ Len(aggregates[a].given) = 2
        /\ aggregates[a].emitted = 2
        /\ aggregates[a].version = 4

\* --------------------------------------------------------------------- C15
\* the events of aggregate a in stream s
OfAggregate(s, a) == SelectSeq(s, LAMBDA e : Has(e, "aggregateId") /\ e.aggregateId = a)

\* the events of aggregate a in the batches whose persistence was among the
\* first d calls of storage.commitEvents to complete, in that order
RECURSIVE CommittedUpTo(_, _)
CommittedUpTo(a, d) ==
    IF d = 0 THEN <<>>
    ELSE CommittedUpTo(a, d - 1) \o
         (LET ks == {k \in 1..Len(storageLog) :
                        storageLog[k].done = d /\ storageLog[k].outcome = "ok"}
          IN IF ks = {} THEN <<>>
             ELSE OfAggregate(commits[storageLog[CHOOSE k \in ks : TRUE].c].stream, a))

\* the aggregates events are committed for
CommittedIds == {"a1", "a2", "a3"}

\* C15: at any time getAggregateEvents(a) resolves to the events with
\* aggregateId a of the batches persisted so far, each once and in the order
\* of their commits, and these include the events of every commit that has
\* resolved.
C15_ReadYourWrites ==
    \A a \in CommittedIds :
        /\ getAggregateEvents(a) = Resolved(CommittedUpTo(a, Len(storageLog)))
        /\ \A c \in 1..Len(commits) :
               (commits[c].events # <<>> /\ commits[c].result.kind = "resolved") =>
                   /\ Persisted(c)
                   /\ IsRunOf(OfAggregate(commits[c].result.value, a),
                              getAggregateEvents(a).value)

\* two commits for two aggregates have resolved, the one called last persisted
\* first, and the stream of one aggregate holds the events of one of them only
C15_Witness ==
    /\ Len(commits) = 2
    /\ commits[1].result.kind = "resolved"
    /\ commits[2].result.kind = "resolved"
    /\ commits[1].events = <<EvA, EvB>>
    /\ commits[2].events = <<EvOther>>
    /\ stored[1] = EvOther
    /\ Len(getAggregateEvents("a1").value) = 2
    /\ getAggregateEvents("a2").value = <<EvOther>>

\* --------------------------------------------------------------------- C16
\* aggregates a and b were restored from the same history of one aggregate
SameHistory(a, b) ==
    /\ aggregates[a].id = aggregates[b].id
    /\ aggregates[a].given = aggregates[b].given

\* the changes of aggregate a were committed and the storage accepted them
ChangesPersisted(a) ==
    /\ aggregates[a].commit # 0
    /\ Persisted(aggregates[a].commit)

\* C16: of two command executions that restored their aggregate from the same
\* persisted history, emitted events and committed them, on a storage that
\* rejects a batch whose first version is not the length of the aggregate's
\* stream, at most one has its batch persisted; the persisted stream of the
\* aggregate carries the versions 0, 1, 2, ... in order; and every event is
\* handed to the storage with the version emit stamped on it.
C16_OptimisticConcurrency ==
    /\ \A a, b \in 1..Len(aggregates) :
           (a # b /\ SameHistory(a, b)) => ~(ChangesPersisted(a) /\ ChangesPersisted(b))
    /\ \A id \in AggregateIds :
           LET persisted == getAggregateEvents(id).value
           IN \A i \in 1..Len(persisted) : persisted[i].version = i - 1
    /\ \A a \in 1..Len(aggregates) :
           aggregates[a].commit # 0 =>
               LET c == aggregates[a].commit
               IN \A k \in StorageCallsOf(c) :
                      /\ Len(storageLog[k].stream) = Len(commits[c].events)
                      /\ \A i \in 1..Len(commits[c].events) :
                             /\ commits[c].events[i] = aggregates[a].changes[i]
                             /\ storageLog[k].stream[i].version
                                    = aggregates[a].changes[i].version

\* two aggregates restored from the same history of one event have each
\* emitted and committed; one batch of two events was persisted, the other
\* rejected
C16_Witness ==
    \E a, b \in 1..Len(aggregates) :
        /\ a # b
        /\ SameHistory(a, b)
        /\ Len(aggregates[a].given) = 1
        /\ ChangesPersisted(a)
        /\ Len(commits[aggregates[a].commit].events) = 2
        /\ aggregates[b].commit # 0
        /\ commits[aggregates[b].commit].result = Rejected("conflict")

\* --------------------------------------------------------------------- C17
\* the context the caller supplied for event: its own, else sourceCommand's
SuppliedContext(event, sourceCommand) ==
    IF Has(event, "context") THEN event.context
    ELSE IF Has(sourceCommand, "context") THEN sourceCommand.context
    ELSE EmptyObj

\* r is tagged as claimed: on a store with a hostname its context has a
\* hostname and every key that was supplied, with the value supplied; on a
\* store without one its context has no hostname that was not supplied
IsTagged(r, event, sourceCommand) ==
    LET supplied == SuppliedContext(event, sourceCommand)
    IN IF Has(config, "hostname")
       THEN /\ Has(r, "context")
            /\ Has(r.context, "hostname")
            /\ \A k \in DOMAIN supplied : Has(r.context, k) /\ r.context[k] = supplied[k]
       ELSE (Has(r, "context") /\ Has(r.context, "hostname")) => Has(supplied, "hostname")

\* C17: on a store configured with a hostname every event commit hands to the
\* storage, publishes and returns has context.hostname set and keeps every
\* context key that was present, sourceCommand.context winning over the
\* store's hostname; on a store without a hostname commit adds no hostname.
C17_HostnameTagged ==
    \A c \in 1..Len(commits) :
        /\ \A k \in StorageCallsOf(c), i \in 1..Len(commits[c].events) :
               IsTagged(storageLog[k].stream[i], commits[c].events[i], commits[c].cmd)
        /\ \A j \in 1..Len(PublishedOf(c)) :
               IsTagged(PublishedOf(c)[j].e, commits[c].events[PublishedOf(c)[j].i],
                        commits[c].cmd)
        /\ (commits[c].events # <<>> /\ commits[c].result.kind = "resolved") =>
               \A i \in 1..Len(commits[c].events) :
                   IsTagged(commits[c].result.value[i], commits[c].events[i],
                            commits[c].cmd)

PersistedBefore(a, b) ==
    /\ Persisted(a)
    /\ Persisted(b)
    /\ storageLog[StorageCall(a)].done < storageLog[StorageCall(b)].done

\* the positions in `published` of the calls of bus.publish for commit c
PublishedAt(c) == {k \in 1..Len(published) : published[k].c = c}

\* C19: in either publish mode, if the persistence of commit a completed before
\* that of commit b, then when bus.publish is called for an event of b it has
\* been called for every event of a: the batches are published one after the
\* other, in the order of their persistence.
C19_PublishOrder ==
    \A a, b \in 1..Len(commits) :
        (hasBus /\ PersistedBefore(a, b)) =>
            \A k \in PublishedAt(b) :
                /\ Cardinality({j \in PublishedAt(a) : j < k}) = Len(commits[a].stream)
                /\ \A j \in PublishedAt(a) : j < k

\* published asynchronously: the commit called second, of two events, was
\* persisted and published first
C19_Witness ==
    /\ config.publishAsync
    /\ Len(commits) = 2
    /\ PersistedBefore(2, 1)
    /\ Len(commits[2].stream) = 2
    /\ PublishedAt(2) = {1, 2}
    /\ PublishedAt(1) # {}

\* --------------------------------------------------------------------- C20
\* the events of the given history that were applied before the replay ended:
\* all of them, or those before the first one state.mutate threw on
ReplayedOf(agg) ==
    LET bad == {i \in 1..Len(agg.given) :
                   agg.state # NoState /\ StateThrows(agg.state, agg.given[i])}
    IN IF bad = {} THEN Len(agg.given)
       ELSE (CHOOSE i \in bad : \A j \in bad : i <= j) - 1

\* version counts the events applied: those replayed and those in changes
C20_State ==
    \A a \in 1..Len(aggregates) :
        /\ aggregates[a].version = ReplayedOf(aggregates[a]) + Len(aggregates[a].changes)
        /\ aggregates[a].constructed <=> ReplayedOf(aggregates[a]) = Len(aggregates[a].given)
                                         /\ aggregates[a].id # ""

\* a call of emit that throws leaves version and changes as they were, and the
\* state too when it throws for its eventType
C20_Step ==
    \A a \in 1..Len(aggregates) :
        (/\ aggregates'[a].calls = aggregates[a].calls + 1
         /\ aggregates'[a].error # "none") =>
            /\ aggregates'[a].version = aggregates[a].version
            /\ aggregates'[a].changes = aggregates[a].changes
            /\ aggregates'[a].error = "eventType argument must be a non-empty string" =>
                   aggregates'[a].state = aggregates[a].state

\* C20: when state.mutate throws while emit or the replay of the constructor
\* applies an event, version is not incremented and the event is not appended
\* to changes, so that version is the number of events replayed plus the
\* length of changes; emit with an eventType that is not a non-empty string
\* throws before it changes version, changes or state.
C20_AllOrNothing == []C20_State /\ [][C20_Step]_vars

\* on an aggregate with a state, restored from one event, emit has returned
\* once and then thrown from state.mutate, which had touched the state
C20_Witness ==
    \E a \in 1..Len(aggregates) :
        /\ aggregates[a].state # NoState
        /\ aggregates[a].state.touched
        /\ Len(aggregates[a].given) = 1
        /\ aggregates[a].emitted = 1
        /\ aggregates[a].calls = 2
        /\ aggregates[a].error = "state.mutate failed"
        /\ aggregates[a].version = 2

====
